---- MODULE Spec2Model ----
(***************************************************************************)
(* Model of backend/facial_analysis_api.py: the POST /api/facial-analysis  *)
(* handler (facial_analysis) and the brightness scorer                     *)
(* (basic_emotion_analysis).                                               *)
(*                                                                         *)
(* Numbers.  The scorer works on Python floats.  The model keeps every     *)
(* score as an exact rational <<numerator, denominator>> with a positive   *)
(* denominator; round(v, 2) is round-half-to-even on that rational.  For   *)
(* the images enumerated here a quotient that lies exactly halfway between *)
(* two hundredths is a multiple of 1/8, which a float holds exactly, and   *)
(* every other quotient is further from a halfway point than any float     *)
(* error, so the float and the rational round to the same hundredth.       *)
(*                                                                         *)
(* Libraries.  base64.b64decode is modelled by the non-strict decoding     *)
(* loop of binascii.a2b_base64.  Image.open is modelled on a raw container *)
(* (width byte, height byte, then width*height RGB triples); convert('L')  *)
(* is the ITU-R 601-2 luma transform in the fixed-point form Pillow uses.  *)
(***************************************************************************)
EXTENDS Integers, Sequences, FiniteSets, TLC

\* ------------------------------------------------------------------ bounds
NumRequests == 2
MaxWidth == 4
MaxHeight == 2
\* largest number of pixels of an enumerated image
MaxPixels == 8
\* images with more pixels than this are drawn from black and white only
RichPixels == 4

Reqs == 1..NumRequests

\* ------------------------------------------------------- exact rationals
Rat(n, d) == <<n, d>>
RatLt(a, b) == a[1] * b[2] < b[1] * a[2]
RatLe(a, b) == a[1] * b[2] <= b[1] * a[2]
RatEq(a, b) == a[1] * b[2] = b[1] * a[2]
RatAdd(a, b) == <<a[1] * b[2] + b[1] * a[2], a[2] * b[2]>>
\* q / k for a positive integer k
RatDivInt(q, k) == <<q[1], q[2] * k>>
\* 1 - q
OneMinus(q) == <<q[2] - q[1], q[2]>>

\* ------------------------------------------------------------ Python builtins
\* min(a, b) returns a unless b < a; max(a, b) returns a unless b > a
PyMin(a, b) == IF RatLt(b, a) THEN b ELSE a
PyMax(a, b) == IF RatLt(a, b) THEN b ELSE a

RECURSIVE PySum(_)
PySum(s) == IF s = <<>> THEN 0 ELSE Head(s) + PySum(Tail(s))

\* a faulty round(v, 2): truncation towards zero
PyTrunc2(v) == <<(v[1] * 100) \div v[2], 100>>

\* round(v, 2): nearest hundredth, ties to the even hundredth
PyRound2(v) ==
    LET lo  == (v[1] * 100) \div v[2]
        rem == (v[1] * 100) % v[2]
    IN  IF 2 * rem < v[2] THEN <<lo, 100>>
        ELSE IF 2 * rem > v[2] THEN <<lo + 1, 100>>
        ELSE IF lo % 2 = 0 THEN <<lo, 100>> ELSE <<lo + 1, 100>>

\* str.split(','): the list of maximal comma-free pieces, in order
RECURSIVE SplitFrom(_, _, _, _)
SplitFrom(s, i, cur, acc) ==
    IF i > Len(s) THEN Append(acc, cur)
    ELSE IF s[i] = "," THEN SplitFrom(s, i + 1, <<>>, Append(acc, cur))
    ELSE SplitFrom(s, i + 1, Append(cur, s[i]), acc)

PySplitComma(s) == SplitFrom(s, 1, <<>>, <<>>)

\* ------------------------------------------------------------------ base64
B64Alphabet ==
    <<"A","B","C","D","E","F","G","H","I","J","K","L","M","N","O","P",
      "Q","R","S","T","U","V","W","X","Y","Z","a","b","c","d","e","f",
      "g","h","i","j","k","l","m","n","o","p","q","r","s","t","u","v",
      "w","x","y","z","0","1","2","3","4","5","6","7","8","9","+","/">>

B64Chars == {B64Alphabet[i] : i \in 1..64}
B64Value(c) == (CHOOSE i \in 1..64 : B64Alphabet[i] = c) - 1

\* binascii.a2b_base64, non-strict: characters outside the alphabet are
\* skipped, a completed padding ends the data, a dangling quad is an error
RECURSIVE A2B(_, _, _, _, _, _)
A2B(s, i, quad, left, pads, out) ==
    IF i > Len(s)
    THEN IF quad # 0 THEN [ok |-> FALSE, bytes |-> <<>>]
                     ELSE [ok |-> TRUE, bytes |-> out]
    ELSE IF s[i] = "="
    THEN IF quad >= 2 /\ quad + pads + 1 >= 4
         THEN [ok |-> TRUE, bytes |-> out]
         ELSE A2B(s, i + 1, quad, left, IF quad >= 2 THEN pads + 1 ELSE pads, out)
    ELSE IF s[i] \notin B64Chars
    THEN A2B(s, i + 1, quad, left, pads, out)
    ELSE LET v == B64Value(s[i]) IN
         CASE quad = 0 -> A2B(s, i + 1, 1, v, 0, out)
           [] quad = 1 -> A2B(s, i + 1, 2, v % 16, 0,
                              Append(out, left * 4 + v \div 16))
           [] quad = 2 -> A2B(s, i + 1, 3, v % 4, 0,
                              Append(out, left * 16 + v \div 4))
           [] quad = 3 -> A2B(s, i + 1, 0, 0, 0,
                              Append(out, left * 64 + v))

b64decode(s) == A2B(s, 1, 0, 0, 0, <<>>)

\* the client's side: standard base64 with '=' padding
RECURSIVE b64encode(_)
b64encode(b) ==
    IF Len(b) = 0 THEN <<>>
    ELSE IF Len(b) = 1 THEN
        <<B64Alphabet[b[1] \div 4 + 1], B64Alphabet[(b[1] % 4) * 16 + 1], "=", "=">>
    ELSE IF Len(b) = 2 THEN
        <<B64Alphabet[b[1] \div 4 + 1],
          B64Alphabet[(b[1] % 4) * 16 + b[2] \div 16 + 1],
          B64Alphabet[(b[2] % 16) * 4 + 1], "=">>
    ELSE
        <<B64Alphabet[b[1] \div 4 + 1],
          B64Alphabet[(b[1] % 4) * 16 + b[2] \div 16 + 1],
          B64Alphabet[(b[2] % 16) * 4 + b[3] \div 64 + 1],
          B64Alphabet[(b[3] % 64) + 1]>> \o b64encode(SubSeq(b, 4, Len(b)))

\* ------------------------------------------------------------------ images
\* an image: width, height and width*height RGB pixels in raster order
NoImage == [width |-> 0, height |-> 0, data |-> <<>>]

RECURSIVE Flatten(_)
Flatten(px) == IF px = <<>> THEN <<>> ELSE Head(px) \o Flatten(Tail(px))

ImageBytes(img) == <<img.width, img.height>> \o Flatten(img.data)

\* Image.open(io.BytesIO(bytes)): the image, or no image when the bytes are
\* not a well-formed container
ImageOpen(b) ==
    IF Len(b) < 2 \/ Len(b) # 2 + 3 * b[1] * b[2]
    THEN [ok |-> FALSE, image |-> NoImage]
    ELSE [ok |-> TRUE,
          image |-> [width |-> b[1], height |-> b[2],
                     data |-> [k \in 1..(b[1] * b[2]) |->
                                 <<b[3 * k], b[3 * k + 1], b[3 * k + 2]>>]]]

\* image.convert('L'): a new single-band image, L = R*299/1000 + G*587/1000
\* + B*114/1000 in 16-bit fixed point; the argument is left as it was
ConvertL(img) ==
    [width |-> img.width, height |-> img.height,
     data |-> [k \in 1..Len(img.data) |->
                 (img.data[k][1] * 19595 + img.data[k][2] * 38470
                  + img.data[k][3] * 7471 + 32768) \div 65536]]

\* ------------------------------------------------------------------ scorer
Labels == {"happy", "sad", "angry", "surprised", "neutral", "confused"}
\* no mapping (nothing was returned)
NoEmotions == <<>>

\* a faulty average: floor division
avg_floor(gray) == Rat(PySum(gray.data) \div (gray.width * gray.height), 1)

\* line 12: sum(gray.getdata()) / (gray.width * gray.height)
avg_brightness(gray) == Rat(PySum(gray.data), gray.width * gray.height)

\* a faulty clamp: max where min is meant
happy_max(avg) == PyMax(Rat(1, 1), RatDivInt(avg, 255))

\* line 14: min(1.0, avg_brightness / 255)
happy(avg) == PyMin(Rat(1, 1), RatDivInt(avg, 255))

\* a faulty scale: 256 levels where 255 is the largest value
sad_256(avg) == PyMax(Rat(0, 1), OneMinus(RatDivInt(avg, 256)))

\* line 15: max(0.0, 1 - avg_brightness / 255)
sad(avg) == PyMax(Rat(0, 1), OneMinus(RatDivInt(avg, 255)))

\* a faulty scorer: an image without pixels is scored as if it were black
basic_emotion_analysis_guarded(img) ==
    LET gray == ConvertL(img)
        avg  == IF gray.width * gray.height = 0 THEN Rat(0, 1)
                ELSE avg_brightness(gray)
    IN  [raised |-> "",
         emotions |-> [happy |-> happy(avg), sad |-> sad(avg),
                       angry |-> Rat(1, 10), surprised |-> Rat(1, 10),
                       neutral |-> Rat(5, 10), confused |-> Rat(1, 10)]]

\* lines 10-21: the division raises on an image without pixels, before any
\* mapping is built
basic_emotion_analysis(img) ==
    LET gray == ConvertL(img) IN
    IF gray.width * gray.height = 0
    THEN [raised |-> "ZeroDivisionError", emotions |-> NoEmotions]
    ELSE LET avg == avg_brightness(gray) IN
         [raised |-> "",
          emotions |-> [happy |-> happy(avg), sad |-> sad(avg),
                        angry |-> Rat(1, 10), surprised |-> Rat(1, 10),
                        neutral |-> Rat(5, 10), confused |-> Rat(1, 10)]]

\* a faulty envelope: scores reported as whole percentages
result_percent(emo) ==
    [emotions |-> [k \in DOMAIN emo |-> Rat(PyRound2(emo[k])[1], 1)],
     engagement |-> 50, attention |-> 50, timestamp |-> "now"]

\* a faulty envelope: engagement derived from the happy score
result_engaged(emo) ==
    [emotions |-> [k \in DOMAIN emo |-> PyRound2(emo[k])],
     engagement |-> IF "happy" \in DOMAIN emo THEN PyRound2(emo.happy)[1] ELSE 50,
     attention |-> 50, timestamp |-> "now"]

\* lines 29-34
result(emo) ==
    [emotions |-> [k \in DOMAIN emo |-> PyRound2(emo[k])],
     engagement |-> 50, attention |-> 50, timestamp |-> "now"]

\* ------------------------------------------------------------------ inputs
Header == <<"d","a","t","a",":","i","m","a","g","e","/","p","n","g",";",
            "b","a","s","e","6","4">>

Black == <<0, 0, 0>>
White == <<255, 255, 255>>
Grey  == <<128, 128, 128>>
Red   == <<255, 0, 0>>

Palette(n) == IF n <= RichPixels THEN {Black, Grey, White, Red}
                                 ELSE {Black, White}

Shapes == {wh \in (0..MaxWidth) \X (0..MaxHeight) : wh[1] * wh[2] <= MaxPixels}

Images ==
    UNION {{[width |-> wh[1], height |-> wh[2], data |-> d] :
                d \in [1..(wh[1] * wh[2]) -> Palette(wh[1] * wh[2])]} :
           wh \in Shapes}

Uniform(w, h, px) == [width |-> w, height |-> h, data |-> [k \in 1..(w * h) |-> px]]

Payload(img) == b64encode(ImageBytes(img))
DataUrl(p) == Header \o <<",">> \o p

FewPayloads ==
    {Payload(Uniform(1, 1, Black)), Payload(Uniform(2, 2, Grey)),
     <<>>, <<"A", "A", "A">>, <<"A", "A", "A", "A">>, b64encode(<<1, 1, 0>>)}

NoCommaFields ==
    {<<>>, Header} \cup FewPayloads \cup {Header \o p : p \in FewPayloads}

MultiCommaFields ==
    {DataUrl(p) \o <<",">> \o q : p, q \in FewPayloads}
    \cup {<<",">> \o p \o <<",">> : p \in FewPayloads}

Fields ==
    {DataUrl(Payload(img)) : img \in Images}
    \cup {DataUrl(p) : p \in FewPayloads}
    \cup NoCommaFields \cup MultiCommaFields

\* a JSON body without the image key
NoImageKey == [frame |-> <<>>]
Bodies == {[image |-> f] : f \in Fields} \cup {NoImageKey}

ConcBodies ==
    {[image |-> DataUrl(Payload(Uniform(1, 1, px)))] : px \in {Black, White, Red}}
    \cup {[image |-> DataUrl(Payload([width |-> 2, height |-> 1,
                                       data |-> <<Grey, White>>]))],
          [image |-> DataUrl(Payload([width |-> 1, height |-> 2,
                                       data |-> <<Black, White>>]))],
          [image |-> DataUrl(Payload(Uniform(0, 0, Black)))],
          [image |-> DataUrl(<<"A", "A", "A">>)],
          [image |-> DataUrl(b64encode(<<1, 1, 0>>))],
          [image |-> Payload(Uniform(1, 1, White))],
          [image |-> DataUrl(Payload(Uniform(1, 1, Black))) \o <<",">>
                         \o Payload(Uniform(1, 1, White))],
          NoImageKey}

\* ------------------------------------------------------------------- state
VARIABLES pc, data, image_data, image, emotions, response
vars == <<pc, data, image_data, image, emotions, response>>

NoBody == [image |-> <<>>]
\* a response: HTTP status, the exception that left the handler (if any)
\* and the JSON document sent (none with a 500)
NoJson == <<>>
NoResponse == [status |-> 0, raised |-> "", json |-> NoJson]

Fresh(bodies, issued) ==
    /\ \E d \in [issued -> bodies] :
          data = [r \in Reqs |-> IF r \in issued THEN d[r] ELSE NoBody]
    /\ pc = [r \in Reqs |-> IF r \in issued THEN "split" ELSE "idle"]
    /\ image_data = [r \in Reqs |-> <<>>]
    /\ image = [r \in Reqs |-> NoImage]
    /\ emotions = [r \in Reqs |-> NoEmotions]
    /\ response = [r \in Reqs |-> NoResponse]

\* one request in flight, any body
Init == Fresh(Bodies, {1})
\* every request in flight
InitConc == Fresh(ConcBodies, Reqs)

\* an exception leaves the handler: the framework answers 500
Abort(r, exc) ==
    /\ pc' = [pc EXCEPT ![r] = "done"]
    /\ response' = [response EXCEPT
                      ![r] = [status |-> 500, raised |-> exc, json |-> NoJson]]

\* a faulty subscript: the piece before the first comma
FirstPiece == 1 - 1
\* line 26: the subscript applied to the list split(',') returns
PieceIndex == 1

\* lines 25-26: data = request.json; image_data = data['image'].split(',')[1]
SplitField(r) ==
    /\ pc[r] = "split"
    /\ IF "image" \notin DOMAIN data[r]
       THEN Abort(r, "KeyError") /\ UNCHANGED image_data
       ELSE LET parts == PySplitComma(data[r].image) IN
            IF Len(parts) <= PieceIndex
            THEN Abort(r, "IndexError") /\ UNCHANGED image_data
            ELSE /\ image_data' = [image_data EXCEPT ![r] = parts[PieceIndex + 1]]
                 /\ pc' = [pc EXCEPT ![r] = "open"]
                 /\ UNCHANGED response
    /\ UNCHANGED <<data, image, emotions>>

\* line 27: image = Image.open(io.BytesIO(base64.b64decode(image_data)))
OpenImage(r) ==
    /\ pc[r] = "open"
    /\ LET dec == b64decode(image_data[r]) IN
       IF ~dec.ok
       THEN Abort(r, "binascii.Error") /\ UNCHANGED image
       ELSE LET opened == ImageOpen(dec.bytes) IN
            IF ~opened.ok
            THEN Abort(r, "UnidentifiedImageError") /\ UNCHANGED image
            ELSE /\ image' = [image EXCEPT ![r] = opened.image]
                 /\ pc' = [pc EXCEPT ![r] = "analyze"]
                 /\ UNCHANGED response
    /\ UNCHANGED <<data, image_data, emotions>>

\* a faulty handler: the opened image is kept in one slot shared by all
\* requests, so the scorer may be handed another request's image
ScorerArgShared(r) ==
    LET holders == {q \in Reqs : pc[q] \in {"analyze", "respond"}} IN
    image[CHOOSE q \in holders : \A p \in holders : q <= p]

\* the image the scorer is called on (line 28)
ScorerArg(r) == image[r]

\* line 28: emotions = basic_emotion_analysis(image)
Analyze(r) ==
    /\ pc[r] = "analyze"
    /\ LET out == basic_emotion_analysis(ScorerArg(r)) IN
       IF out.raised # ""
       THEN Abort(r, out.raised) /\ UNCHANGED emotions
       ELSE /\ emotions' = [emotions EXCEPT ![r] = out.emotions]
            /\ pc' = [pc EXCEPT ![r] = "respond"]
            /\ UNCHANGED response
    /\ UNCHANGED <<data, image_data, image>>

\* lines 29-35: return jsonify({'facial': result})
Respond(r) ==
    /\ pc[r] = "respond"
    /\ response' = [response EXCEPT
                      ![r] = [status |-> 200, raised |-> "",
                              json |-> [facial |-> result(emotions[r])]]]
    /\ pc' = [pc EXCEPT ![r] = "done"]
    /\ UNCHANGED <<data, image_data, image, emotions>>

Next ==
    \E r \in Reqs : SplitField(r) \/ OpenImage(r) \/ Analyze(r) \/ Respond(r)

Spec == Init /\ [][Next]_vars
SpecConc == InitConc /\ [][Next]_vars

TypeOK ==
    /\ pc \in [Reqs -> {"idle", "split", "open", "analyze", "respond", "done"}]
    /\ \A r \in Reqs : response[r].status \in {0, 200, 500}

\* ------------------------------------------------------------- properties
\* the request got past line 27: an image was opened for it
Opened(r) ==
    /\ pc[r] \in {"analyze", "respond", "done"}
    /\ response[r].raised \notin
         {"KeyError", "IndexError", "binascii.Error", "UnidentifiedImageError"}
\* the scorer returned a mapping for the request
Scored(r) == pc[r] = "respond" \/ (pc[r] = "done" /\ response[r].status = 200)
\* the request was answered with a 200
Answered(r) == pc[r] = "done" /\ response[r].status = 200

Lum(r) == ConvertL(image[r]).data
PixelCount(r) == image[r].width * image[r].height
LumSum(r) == PySum(Lum(r))
AllLum(r, v) == \A k \in 1..Len(Lum(r)) : Lum(r)[k] = v
Sent(r) == response[r].json.facial

Clamp01(q) == IF RatLt(q, Rat(0, 1)) THEN Rat(0, 1)
              ELSE IF RatLt(Rat(1, 1), q) THEN Rat(1, 1) ELSE q
In01(q) == RatLe(Rat(0, 1), q) /\ RatLe(q, Rat(1, 1))
HasComma(s) == \E i \in 1..Len(s) : s[i] = ","
AfterFirstComma(s) ==
    LET i == CHOOSE j \in 1..Len(s) : s[j] = "," /\ \A k \in 1..(j - 1) : s[k] # ","
    IN  SubSeq(s, i + 1, Len(s))
\* v is a number of hundredths and no hundredth is nearer to q
NearestHundredth(v, q) ==
    /\ v[2] = 100
    /\ 200 * q[1] - 2 * v[1] * q[2] <= q[2]
    /\ 2 * v[1] * q[2] - 200 * q[1] <= q[2]

\* C1: for every image with at least one pixel and luminances in 0..255 the
\* scorer returns happy = clamp(avg/255, 0, 1) and sad = clamp(1 - avg/255,
\* 0, 1) with avg = (sum of luminances) / (width * height).
C1_ScoresAreClampedAverage ==
    \A r \in Reqs :
        (Scored(r) /\ PixelCount(r) >= 1 /\ \A k \in 1..Len(Lum(r)) : Lum(r)[k] \in 0..255)
        => /\ Len(Lum(r)) = PixelCount(r)
           /\ RatEq(emotions[r].happy,
                    Clamp01(Rat(LumSum(r), 255 * PixelCount(r))))
           /\ RatEq(emotions[r].sad,
                    Clamp01(Rat(255 * PixelCount(r) - LumSum(r), 255 * PixelCount(r))))

C1_Witness ==
    \E r \in Reqs :
        /\ Scored(r) /\ PixelCount(r) >= 2
        /\ 0 < LumSum(r) /\ LumSum(r) < 255 * PixelCount(r)
        /\ \E k \in 1..Len(Lum(r)) : Lum(r)[k] # Lum(r)[1]

\* C2: every mapping the scorer returns, and every mapping placed in a 200
\* response after rounding, has exactly the six labels and every value in
\* [0, 1].
C2_SixLabelsInUnitInterval ==
    \A r \in Reqs :
        /\ Scored(r) => /\ DOMAIN emotions[r] = Labels
                        /\ \A k \in Labels : In01(emotions[r][k])
        /\ Answered(r) => /\ DOMAIN Sent(r).emotions = Labels
                          /\ \A k \in Labels : In01(Sent(r).emotions[k])

C2_Witness ==
    \E r \in Reqs :
        /\ Answered(r) /\ PixelCount(r) >= 2 /\ AllLum(r, 0)
        /\ Cardinality(DOMAIN Sent(r).emotions) = 6
        /\ Sent(r).emotions.sad = Rat(100, 100)

\* C3: a request whose image field holds no comma fails (IndexError, the
\* MalformedRequest fault): it is never answered with a 200 and nothing of a
\* result is produced for it.
C3_NoCommaFails ==
    \A r \in Reqs :
        (pc[r] # "idle" /\ "image" \in DOMAIN data[r] /\ ~HasComma(data[r].image))
        => /\ pc[r] \in {"split", "done"}
           /\ response[r].status # 200
           /\ response[r].json = NoJson
           /\ emotions[r] = NoEmotions
           /\ pc[r] = "done" => /\ response[r].status = 500
                                /\ response[r].raised = "IndexError"

\* a bare payload that would decode to an image, sent without a header
C3_Witness ==
    \E r \in Reqs :
        /\ pc[r] = "done" /\ "image" \in DOMAIN data[r]
        /\ ~HasComma(data[r].image)
        /\ b64decode(data[r].image).ok
        /\ ImageOpen(b64decode(data[r].image).bytes).ok
        /\ ImageOpen(b64decode(data[r].image).bytes).image.width >= 1
        /\ response[r].raised = "IndexError"

\* C4: for every image field with at least one comma the handler decodes
\* exactly the substring after the first comma, also when the field holds
\* two or more commas.
C4_DecodesAllAfterFirstComma ==
    \A r \in Reqs :
        (pc[r] = "open" /\ "image" \in DOMAIN data[r] /\ HasComma(data[r].image))
        => image_data[r] = AfterFirstComma(data[r].image)

\* C5: the scorer called on an image without pixels fails
\* (ZeroDivisionError, the InvalidImage fault) and returns no mapping.
C5_ZeroAreaFails ==
    \A r \in Reqs :
        (Opened(r) /\ pc[r] # "analyze" /\ PixelCount(r) = 0)
        => /\ pc[r] = "done"
           /\ response[r].status = 500
           /\ response[r].raised = "ZeroDivisionError"
           /\ emotions[r] = NoEmotions
           /\ response[r].json = NoJson

C5_Witness ==
    \E r \in Reqs :
        /\ Opened(r) /\ pc[r] = "done"
        /\ image[r].width = 0 /\ image[r].height >= 1
        /\ response[r].raised = "ZeroDivisionError"

\* the answer facial_analysis gives to a body when no other request exists
AloneResponse(body) ==
    IF "image" \notin DOMAIN body
    THEN [status |-> 500, raised |-> "KeyError", json |-> NoJson]
    ELSE LET parts == PySplitComma(body.image) IN
    IF Len(parts) < 2
    THEN [status |-> 500, raised |-> "IndexError", json |-> NoJson]
    ELSE LET dec == b64decode(parts[2]) IN
    IF ~dec.ok
    THEN [status |-> 500, raised |-> "binascii.Error", json |-> NoJson]
    ELSE LET opened == ImageOpen(dec.bytes) IN
    IF ~opened.ok
    THEN [status |-> 500, raised |-> "UnidentifiedImageError", json |-> NoJson]
    ELSE LET out == basic_emotion_analysis(opened.image) IN
    IF out.raised # ""
    THEN [status |-> 500, raised |-> out.raised, json |-> NoJson]
    ELSE [status |-> 200, raised |-> "", json |-> [facial |-> result(out.emotions)]]

\* C6: in every interleaving of concurrently handled requests each response
\* equals the response of the same request handled alone, and the image
\* handed to the scorer is afterwards still the image that was opened.
C6_ResponsesIndependent ==
    \A r \in Reqs :
        /\ pc[r] = "done" => response[r] = AloneResponse(data[r])
        /\ (Opened(r) /\ pc[r] # "analyze")
           => image[r] = ImageOpen(b64decode(image_data[r]).bytes).image

\* every request answered, two of them with different images and answers
C6_Witness ==
    /\ \A r \in Reqs : Answered(r)
    /\ \E r, q \in Reqs : r # q /\ image[r] # image[q]
                           /\ response[r] # response[q]

\* C7: every emotion value of a 200 response is the scorer's value rounded
\* to two decimals (happy = round(avg/255, 2), sad = round(1 - avg/255, 2));
\* a 2x2 image of luminance 128 yields happy = 0.50 and sad = 0.50.
C7_RoundedToTwoDecimals ==
    \A r \in Reqs :
        Answered(r)
        => /\ \A k \in Labels : NearestHundredth(Sent(r).emotions[k], emotions[r][k])
           /\ NearestHundredth(Sent(r).emotions.happy,
                               Rat(LumSum(r), 255 * PixelCount(r)))
           /\ NearestHundredth(Sent(r).emotions.sad,
                               Rat(255 * PixelCount(r) - LumSum(r), 255 * PixelCount(r)))
           /\ (image[r].width = 2 /\ image[r].height = 2 /\ AllLum(r, 128))
              => /\ Sent(r).emotions.happy = Rat(50, 100)
                 /\ Sent(r).emotions.sad = Rat(50, 100)

C7_Witness ==
    \E r \in Reqs :
        /\ Answered(r)
        /\ image[r] = Uniform(2, 2, Grey) /\ AllLum(r, 128)
        /\ Sent(r).emotions.happy = Rat(50, 100)

\* C8: an image of any size whose pixels all have luminance 0 gives
\* happy = 0 and sad = 1, one whose pixels all have luminance 255 gives
\* happy = 1 and sad = 0, before and after rounding.
C8_BlackAndWhite ==
    \A r \in Reqs :
        /\ (Scored(r) /\ AllLum(r, 0))
           => /\ RatEq(emotions[r].happy, Rat(0, 1))
              /\ RatEq(emotions[r].sad, Rat(1, 1))
        /\ (Scored(r) /\ AllLum(r, 255))
           => /\ RatEq(emotions[r].happy, Rat(1, 1))
              /\ RatEq(emotions[r].sad, Rat(0, 1))
        /\ (Answered(r) /\ AllLum(r, 0))
           => /\ RatEq(Sent(r).emotions.happy, Rat(0, 1))
              /\ RatEq(Sent(r).emotions.sad, Rat(1, 1))
        /\ (Answered(r) /\ AllLum(r, 255))
           => /\ RatEq(Sent(r).emotions.happy, Rat(1, 1))
              /\ RatEq(Sent(r).emotions.sad, Rat(0, 1))

C8_Witness ==
    \E r \in Reqs :
        /\ Answered(r) /\ PixelCount(r) >= 3 /\ AllLum(r, 255)
        /\ RatEq(Sent(r).emotions.happy, Rat(1, 1))

C10_ComplementaryAndMonotone ==
    /\ \A r \in Reqs :
          Scored(r)
          => /\ RatEq(RatAdd(emotions[r].happy, emotions[r].sad), Rat(1, 1))
             /\ emotions[r].happy[1] * 255 * PixelCount(r)
                  = LumSum(r) * emotions[r].happy[2]
             /\ emotions[r].sad[1] * 255 * PixelCount(r)
                  = (255 * PixelCount(r) - LumSum(r)) * emotions[r].sad[2]
    /\ \A r, q \in Reqs :
          (Scored(r) /\ Scored(q) /\ PixelCount(r) = PixelCount(q)
             /\ LumSum(r) <= LumSum(q))
          => /\ RatLe(emotions[r].happy, emotions[q].happy)
             /\ RatLe(emotions[q].sad, emotions[r].sad)

C10_Witness ==
    \E r, q \in Reqs :
        /\ Scored(r) /\ Scored(q) /\ PixelCount(r) = PixelCount(q)
        /\ LumSum(r) < LumSum(q)
        /\ LumSum(r) % PixelCount(r) # 0
        /\ RatLt(emotions[r].happy, emotions[q].happy)
====
